---- MODULE Spec2Model ----
(***************************************************************************)
(* Optimal piecewise-linear model of rmi_lib (models/optimal_pla.rs).      *)
(*                                                                         *)
(* The model follows build_segments step by step (outer loop, inner        *)
(* extension loop, segment close), OptimalPLAModel::new, predict_to_float  *)
(* and set_to_constant_model.  f64 arithmetic is IEEE-754 binary64 with    *)
(* round-to-nearest-even: a double is sg * m * 2^e with m an arbitrary     *)
(* precision natural number kept as a little-endian sequence of 15-bit     *)
(* limbs (TLC integers are 32 bits wide).  u64 values are naturals in the  *)
(* same limb representation.  Infinities, NaN, subnormals and the sign of  *)
(* zero never decide anything in the modelled code paths and are left out. *)
(***************************************************************************)
EXTENDS Integers, Sequences, FiniteSets, TLC

(***************************************************************************)
(* Arbitrary precision naturals: <<>> is 0, the last limb is never 0.      *)
(***************************************************************************)
LimbBits == 10 + 5
BASE == 2^LimbBits

RECURSIVE BTrim(_)
BTrim(a) ==
  IF a = <<>> THEN a
  ELSE IF a[Len(a)] = 0 THEN BTrim(SubSeq(a, 1, Len(a) - 1)) ELSE a

RECURSIVE BFromInt(_)
BFromInt(n) ==
  IF n = 0 THEN <<>> ELSE <<n % BASE>> \o BFromInt(n \div BASE)

RECURSIVE BCmpAt(_, _, _)
BCmpAt(a, b, i) ==
  IF i = 0 THEN 0
  ELSE IF a[i] > b[i] THEN 1
  ELSE IF a[i] < b[i] THEN -1
  ELSE BCmpAt(a, b, i - 1)

BCmp(a, b) ==
  IF Len(a) > Len(b) THEN 1
  ELSE IF Len(a) < Len(b) THEN -1
  ELSE BCmpAt(a, b, Len(a))

RECURSIVE BAddAt(_, _, _, _)
BAddAt(a, b, i, c) ==
  IF i > Len(a) /\ i > Len(b) THEN (IF c = 0 THEN <<>> ELSE <<c>>)
  ELSE LET s == (IF i <= Len(a) THEN a[i] ELSE 0)
                + (IF i <= Len(b) THEN b[i] ELSE 0) + c
       IN  <<s % BASE>> \o BAddAt(a, b, i + 1, s \div BASE)

BAdd(a, b) == BAddAt(a, b, 1, 0)

RECURSIVE BSubAt(_, _, _, _)
BSubAt(a, b, i, br) ==
  IF i > Len(a) THEN <<>>
  ELSE LET d == a[i] - (IF i <= Len(b) THEN b[i] ELSE 0) - br
       IN  IF d < 0 THEN <<d + BASE>> \o BSubAt(a, b, i + 1, 1)
           ELSE <<d>> \o BSubAt(a, b, i + 1, 0)

\* a - b for a >= b
BSub(a, b) == BTrim(BSubAt(a, b, 1, 0))

RECURSIVE BMulLimbAt(_, _, _, _)
BMulLimbAt(a, d, i, c) ==
  IF i > Len(a) THEN (IF c = 0 THEN <<>> ELSE <<c>>)
  ELSE LET p == a[i] * d + c
       IN  <<p % BASE>> \o BMulLimbAt(a, d, i + 1, p \div BASE)

BMulLimb(a, d) == IF d = 0 THEN <<>> ELSE BMulLimbAt(a, d, 1, 0)

BShlLimbs(a, k) == IF a = <<>> THEN a ELSE [i \in 1..k |-> 0] \o a

RECURSIVE BMulAt(_, _, _)
BMulAt(a, b, j) ==
  IF j > Len(b) THEN <<>>
  ELSE BAdd(BMulLimb(a, b[j]), BShlLimbs(BMulAt(a, b, j + 1), 1))

BMul(a, b) == BMulAt(a, b, 1)

\* a * 2^k
BShl(a, k) == BShlLimbs(BMulLimb(a, 2^(k % LimbBits)), k \div LimbBits)

RECURSIVE BDivLimbAt(_, _, _, _)
BDivLimbAt(a, d, i, r) ==
  IF i = 0 THEN <<>>
  ELSE LET cur == r * BASE + a[i]
       IN  BDivLimbAt(a, d, i - 1, cur % d) \o <<cur \div d>>

\* floor(a / d) for a one-limb divisor 0 < d <= BASE
BDivLimb(a, d) == BTrim(BDivLimbAt(a, d, Len(a), 0))

RECURSIVE BModLimbAt(_, _, _, _)
BModLimbAt(a, d, i, r) ==
  IF i = 0 THEN r ELSE BModLimbAt(a, d, i - 1, (r * BASE + a[i]) % d)

BModLimb(a, d) == BModLimbAt(a, d, Len(a), 0)

\* floor(a / 2^k)
BShr(a, k) ==
  IF k \div LimbBits >= Len(a) THEN <<>>
  ELSE BDivLimb(SubSeq(a, (k \div LimbBits) + 1, Len(a)), 2^(k % LimbBits))

\* number of bits of a limb
BitLen(n) == CHOOSE b \in 0..LimbBits : n < 2^b /\ (b = 0 \/ 2^(b - 1) <= n)

BBitLen(a) ==
  IF a = <<>> THEN 0 ELSE LimbBits * (Len(a) - 1) + BitLen(a[Len(a)])

BIsOdd(a) == a # <<>> /\ a[1] % 2 = 1

\* number of trailing zero bits of a non-zero limb
TrailingZeroBits(n) ==
  CHOOSE t \in 0..(LimbBits - 1) : n % 2^t = 0 /\ n % 2^(t + 1) # 0

RECURSIVE BTrailingZeros(_, _)
BTrailingZeros(a, i) ==
  IF a[i] = 0 THEN LimbBits + BTrailingZeros(a, i + 1)
  ELSE TrailingZeroBits(a[i])

\* limb k (0-based) of r, 0 above the top
BLimb(r, k) == IF k < Len(r) THEN r[k + 1] ELSE 0

\* the quotient digit of r / d for r < d * BASE and the top bit of d set:
\* the estimate from the two leading limbs is at most 2 too large
RECURSIVE BFixDigit(_, _, _)
BFixDigit(r, d, t) ==
  IF BCmp(BMulLimb(d, t), r) <= 0 THEN t ELSE BFixDigit(r, d, t - 1)

BDigit(r, d) ==
  LET est == (BLimb(r, Len(d)) * BASE + BLimb(r, Len(d) - 1)) \div d[Len(d)]
  IN  BFixDigit(r, d, IF est < BASE THEN est ELSE BASE - 1)

\* schoolbook long division of n by d from limb i downwards; r is the
\* remainder and q the quotient limbs so far
RECURSIVE BDivLong(_, _, _, _, _)
BDivLong(n, d, i, r, q) ==
  IF i = 0 THEN [q |-> q, r |-> r]
  ELSE LET cur == BTrim(<<n[i]>> \o r)
           t   == BDigit(cur, d)
       IN  IF t = 0 THEN BDivLong(n, d, i - 1, cur, <<0>> \o q)
           ELSE BDivLong(n, d, i - 1, BSub(cur, BMulLimb(d, t)), <<t>> \o q)

\* quotient and remainder of n / d, d # 0
BDivMod(n, d) ==
  IF Len(d) = 1
  THEN [q |-> BDivLimb(n, d[1]), r |-> BFromInt(BModLimb(n, d[1]))]
  ELSE LET s   == LimbBits - BitLen(d[Len(d)])
           res == BDivLong(BMulLimb(n, 2^s), BMulLimb(d, 2^s), Len(BMulLimb(n, 2^s)),
                           <<>>, <<>>)
       IN  [q |-> BTrim(res.q), r |-> BDivLimb(res.r, 2^s)]

(***************************************************************************)
(* f64: value sg * m * 2^e, m odd or zero; at most MantissaBits bits.      *)
(***************************************************************************)
MantissaBits == 53

FZero == [sg |-> 1, m |-> <<>>, e |-> 0]

\* canonical form of an exactly representable value
FNorm(sg, M, E) ==
  IF M = <<>> THEN FZero
  ELSE LET t == BTrailingZeros(M, 1)
       IN  [sg |-> sg, m |-> BShr(M, t), e |-> E + t]

\* round sg * M * 2^E to the nearest double, ties to even
FRound(sg, M, E) ==
  LET L == BBitLen(M)
  IN  IF L <= MantissaBits THEN FNorm(sg, M, E)
      ELSE LET sh   == L - MantissaBits
               q    == BShr(M, sh)
               mid  == BShl(BAdd(BMulLimb(q, 2), <<1>>), sh - 1)
               c    == BCmp(M, mid)
               up   == c > 0 \/ (c = 0 /\ BIsOdd(q))
           IN  FNorm(sg, IF up THEN BAdd(q, <<1>>) ELSE q, E + sh)

\* exact (unrounded) sum and product of two values
XAdd(x, y) ==
  IF x.m = <<>> THEN y
  ELSE IF y.m = <<>> THEN x
  ELSE LET emin == IF x.e < y.e THEN x.e ELSE y.e
           A == BShl(x.m, x.e - emin)
           B == BShl(y.m, y.e - emin)
           c == BCmp(A, B)
       IN  IF x.sg = y.sg THEN [sg |-> x.sg, m |-> BAdd(A, B), e |-> emin]
           ELSE IF c = 0 THEN FZero
           ELSE IF c > 0 THEN [sg |-> x.sg, m |-> BSub(A, B), e |-> emin]
           ELSE [sg |-> y.sg, m |-> BSub(B, A), e |-> emin]

XMul(x, y) ==
  IF x.m = <<>> \/ y.m = <<>> THEN FZero
  ELSE [sg |-> x.sg * y.sg, m |-> BMul(x.m, y.m), e |-> x.e + y.e]

FNeg(x) == IF x.m = <<>> THEN x ELSE [x EXCEPT !.sg = -x.sg]
FAbs(x) == [x EXCEPT !.sg = 1]

FOf(x) == FRound(x.sg, x.m, x.e)

FAdd(x, y) == FOf(XAdd(x, y))
FSub(x, y) == FOf(XAdd(x, FNeg(y)))
FMul(x, y) == FOf(XMul(x, y))
\* f64::mul_add: one rounding of a * b + c
FMulAdd(a, b, c) == FOf(XAdd(XMul(a, b), c))

\* x / y for y # 0: the quotient to MantissaBits + 3 bits, then one more
\* bit that is set iff the division left a remainder
FDiv(x, y) ==
  IF x.m = <<>> THEN FZero
  ELSE LET gap == (MantissaBits + 3) + BBitLen(y.m) - BBitLen(x.m)
           k   == IF gap > 0 THEN gap ELSE 0
           qr  == BDivMod(BShl(x.m, k), y.m)
       IN  IF qr.r = <<>>
           THEN FRound(x.sg * y.sg, qr.q, x.e - y.e - k)
           ELSE FRound(x.sg * y.sg, BAdd(BMulLimb(qr.q, 2), <<1>>), x.e - y.e - k - 1)

\* -1, 0, 1 as x <, =, > y
FCmp(x, y) == IF x = y THEN 0 ELSE XAdd(x, FNeg(y)).sg

FLe(x, y) == FCmp(x, y) <= 0
FMax(x, y) == IF FCmp(x, y) >= 0 THEN x ELSE y

\* u64 as f64
FFromU(k) == FRound(1, k, 0)
FInt(n) == FFromU(BFromInt(n))

\* f64 -> u64 cast (`as u64`): truncation, saturating at both ends
U64_MAX == BSub(BShl(<<1>>, 64), <<1>>)

FToU(x) ==
  IF x.m = <<>> \/ x.sg < 0 THEN <<>>
  ELSE LET t == IF x.e >= 0 THEN BShl(x.m, x.e) ELSE BShr(x.m, -x.e)
       IN  IF BCmp(t, U64_MAX) > 0 THEN U64_MAX ELSE t

\* f64::floor
FFloor(x) ==
  IF x.m = <<>> \/ x.e >= 0 THEN x
  ELSE LET t == BShr(x.m, -x.e)
       IN  IF x.sg > 0 THEN FNorm(1, t, 0) ELSE FNorm(-1, BAdd(t, <<1>>), 0)

(***************************************************************************)
(* Bounds of the explored inputs.                                          *)
(***************************************************************************)
MaxLen == 3       \* pairs in a training data container
MaxKey == 2       \* keys are 0..MaxKey
MaxPos == 6       \* positions are 0..MaxPos
MaxConst == 1     \* small arguments of set_to_constant_model
MaxLineKey == 3   \* keys of the exact-line containers
MaxSlope == 3     \* slopes a of the exact-line containers
MaxOffset == 1    \* offsets b of the exact-line containers

(***************************************************************************)
(* Training data: pairs <<key, position>>, sorted ascending by key,        *)
(* duplicate keys permitted, positions increasing (the rank of the pair in *)
(* the sorted data, or any other increasing offset as in the unit tests).  *)
(***************************************************************************)
Sorted(d) ==
  \A j \in 1..(Len(d) - 1) : d[j][1] <= d[j + 1][1] /\ d[j][2] < d[j + 1][2]

Datasets ==
  UNION {{d \in [1..n -> (0..MaxKey) \X (0..MaxPos)] : Sorted(d)} : n \in 0..MaxLen}

\* tests::makes_multiple_segments_when_needed
ClusterData ==
  << <<0, 0>>, <<1, 1>>, <<2, 2>>, <<100, 120>>, <<101, 121>>, <<102, 122>> >>

\* tests::fits_linear_run
LinearRun == [j \in 1..50 |-> <<j - 1, (j - 1) * 2>>]

\* tests::empty_defaults_to_zero
EmptyData == << >>

OnLine(d, a, b) == \A j \in 1..Len(d) : d[j][2] = a * d[j][1] + b

\* the line position = a * key + b sampled at the keys ks[1] < ks[2] < ...
LineData(ks, a, b) == [j \in 1..Len(ks) |-> <<ks[j], a * ks[j] + b>>]

LineDatasets ==
  {LineData(ks, a, b) :
     ks \in UNION {{k \in [1..n -> 0..MaxLineKey] :
                      \A j \in 1..(n - 1) : k[j] < k[j + 1]} : n \in 1..MaxLen},
     a \in 1..MaxSlope, b \in 0..MaxOffset}

\* TrainingKey::as_float and TrainingKey::as_uint of an integer key
as_float(key) == FInt(key)
as_uint(key) == BFromInt(key)

MAX_SEGMENT_ABS_ERROR == FInt(1)

(***************************************************************************)
(* simple_lr: one pass of running means and cross products.                *)
(***************************************************************************)
LrInit == [n |-> 0, mean_x |-> FZero, mean_y |-> FZero, c |-> FZero, m2 |-> FZero]

LrStep(sums, x, y) ==
  LET n      == sums.n + 1
      dx     == FSub(x, sums.mean_x)
      mean_x == FAdd(sums.mean_x, FDiv(dx, FInt(n)))
      mean_y == FAdd(sums.mean_y, FDiv(FSub(y, sums.mean_y), FInt(n)))
      c      == FAdd(sums.c, FMul(dx, FSub(y, mean_y)))
      dx2    == FSub(x, mean_x)
      m2     == FAdd(sums.m2, FMul(dx, dx2))
  IN  [n |-> n, mean_x |-> mean_x, mean_y |-> mean_y, c |-> c, m2 |-> m2]

RECURSIVE LrFold(_, _)
LrFold(loc_data, j) ==
  IF j = 0 THEN LrInit
  ELSE LrStep(LrFold(loc_data, j - 1), loc_data[j][1], loc_data[j][2])

\* a line: intercept alpha and slope beta
Line(alpha, beta) == [beta |-> beta, alpha |-> alpha]

\* lines 33-51: the line from the accumulated sums
LrResult(sums) ==
  IF sums.n = 0 THEN Line(FZero, FZero)
  ELSE IF sums.n = 1 THEN Line(sums.mean_y, FZero)
  ELSE LET cov == FDiv(sums.c, FInt(sums.n - 1))
           var == FDiv(sums.m2, FInt(sums.n - 1))
       IN  IF var = FZero THEN Line(sums.mean_y, FZero)
           ELSE LET beta  == FDiv(cov, var)
                    alpha == FSub(sums.mean_y, FMul(beta, sums.mean_x))
                IN  Line(alpha, beta)

simple_lr(loc_data) == LrResult(LrFold(loc_data, Len(loc_data)))

\* pairs start .. end-1 (0-based, as in the code) of d
Window(d, from, to) == [j \in 1..(to - from) |-> d[from + j]]

fit_segment(d, from, to) ==
  LET w == Window(d, from, to)
  IN  simple_lr([j \in 1..Len(w) |-> <<as_float(w[j][1]), FInt(w[j][2])>>])

Residual(params, key, pos) ==
  FAbs(FSub(FMulAdd(params.beta, as_float(key), params.alpha), FInt(pos)))

RECURSIVE MaxResidual(_, _, _)
MaxResidual(w, j, params) ==
  IF j = 0 THEN FZero
  ELSE FMax(MaxResidual(w, j - 1, params), Residual(params, w[j][1], w[j][2]))

segment_error(d, from, to, params) ==
  LET w == Window(d, from, to) IN MaxResidual(w, Len(w), params)

(***************************************************************************)
(* State.  start, end, best_params, best_err, candidate_params,            *)
(* candidate_err, intercepts, slopes and boundaries are the locals of      *)
(* build_segments; once the model is constructed the three vectors are the *)
(* fields of OptimalPLAModel.  A fit (fit_segment then segment_error over  *)
(* pairs start .. upto-1) runs one pair per step: acc holds the sums of    *)
(* simple_lr, fold the running maximum of segment_error, cursor the number *)
(* of pairs the iterator has yielded and caller the call site (line 89 or  *)
(* line 93).  ranges records the start:end pairs that build_segments       *)
(* traces, forced the latest set_to_constant_model call (argument and      *)
(* return value) and query the latest predict_to_float call on the model   *)
(* as it is now (key, clamped segment index, result).                      *)
(***************************************************************************)
VARIABLES data, pc, start, end, best_params, best_err,
          candidate_params, candidate_err, caller, upto, cursor, acc, fold,
          intercepts, slopes, boundaries, ranges, forced, query

vars == <<data, pc, start, end, best_params, best_err,
          candidate_params, candidate_err, caller, upto, cursor, acc, fold,
          intercepts, slopes, boundaries, ranges, forced, query>>

fitVars == <<caller, upto, cursor, acc, fold>>
modelVars == <<intercepts, slopes, boundaries>>
callVars == <<forced, query>>

None == "none"

\* no predict_to_float call yet (on the model as it is now)
NoQuery == [asked |-> FALSE, key |-> <<>>, idx |-> 0, out |-> FZero]

\* no set_to_constant_model call yet
NotForced == [called |-> FALSE, constant |-> <<>>, ret |-> FALSE]

InitWith(D) ==
  /\ data \in D
  /\ pc = "new"
  /\ start = 0
  /\ end = 0
  /\ best_params = Line(FZero, FZero)
  /\ best_err = FZero
  /\ candidate_params = Line(FZero, FZero)
  /\ candidate_err = FZero
  /\ caller = None
  /\ upto = 0
  /\ cursor = 0
  /\ acc = LrInit
  /\ fold = FZero
  /\ intercepts = << >>
  /\ slopes = << >>
  /\ boundaries = << >>
  /\ ranges = << >>
  /\ forced = NotForced
  /\ query = NoQuery

Init == InitWith(Datasets)
InitScenario == InitWith({ClusterData, LinearRun, EmptyData})
InitLine == InitWith(LineDatasets)

\* BuildEnter with the catch-all segment predicting 1.0 instead of 0.0
BuildEnterInterceptOne ==
  /\ pc = "new"
  /\ IF Len(data) = 0
     THEN /\ intercepts' = <<FInt(1)>>
          /\ slopes' = <<FZero>>
          /\ boundaries' = <<U64_MAX>>
          /\ pc' = "built"
     ELSE /\ intercepts' = << >>
          /\ slopes' = << >>
          /\ boundaries' = << >>
          /\ pc' = "outer"
  /\ start' = 0
  /\ UNCHANGED <<data, end, best_params, best_err, candidate_params,
                 candidate_err, fitVars, ranges, callVars>>

\* BuildEnter without the special case for the empty container
BuildEnterNoEmptyCase ==
  /\ pc = "new"
  /\ intercepts' = << >>
  /\ slopes' = << >>
  /\ boundaries' = << >>
  /\ pc' = "outer"
  /\ start' = 0
  /\ UNCHANGED <<data, end, best_params, best_err, candidate_params,
                 candidate_err, fitVars, ranges, callVars>>

\* build_segments, lines 78-86: the empty container gets the catch-all segment
BuildEnter ==
  /\ pc = "new"
  /\ IF Len(data) = 0
     THEN /\ intercepts' = <<FZero>>
          /\ slopes' = <<FZero>>
          /\ boundaries' = <<U64_MAX>>
          /\ pc' = "built"
     ELSE /\ intercepts' = << >>
          /\ slopes' = << >>
          /\ boundaries' = << >>
          /\ pc' = "outer"
  /\ start' = 0
  /\ UNCHANGED <<data, end, best_params, best_err, candidate_params,
                 candidate_err, fitVars, ranges, callVars>>

\* entry of fit_segment over pairs start .. to-1, called from site
CallFit(site, to) ==
  /\ caller' = site
  /\ upto' = to
  /\ cursor' = 0
  /\ acc' = LrInit
  /\ pc' = "lr"

\* lines 87-89 and 112: open a segment of one pair, or return
OuterStep ==
  /\ pc = "outer"
  /\ IF start < Len(data)
     THEN /\ end' = start + 1
          /\ CallFit("first", start + 1)
     ELSE /\ pc' = "built"
          /\ UNCHANGED <<end, caller, upto, cursor, acc>>
  /\ UNCHANGED <<data, start, best_params, best_err, candidate_params,
                 candidate_err, fold, modelVars, ranges, callVars>>

\* lines 92-93 and 100-102: try one more pair, or leave the inner loop
InnerStep ==
  /\ pc = "inner"
  /\ IF end < Len(data)
     THEN CallFit("candidate", end + 1)
     ELSE /\ pc' = "close"
          /\ UNCHANGED <<caller, upto, cursor, acc>>
  /\ UNCHANGED <<data, start, end, best_params, best_err, candidate_params,
                 candidate_err, fold, modelVars, ranges, callVars>>

\* simple_lr, lines 21-31: one iteration of the loop
LrLoop ==
  /\ pc = "lr"
  /\ cursor < upto - start
  /\ acc' = LrStep(acc, as_float(data[start + cursor + 1][1]), FInt(data[start + cursor + 1][2]))
  /\ cursor' = cursor + 1
  /\ UNCHANGED <<data, pc, start, end, best_params, best_err, candidate_params,
                 candidate_err, caller, upto, fold, modelVars, ranges, callVars>>

\* simple_lr, lines 33-51, returning into segment_error (lines 90 and 94)
LrReturn ==
  /\ pc = "lr"
  /\ cursor = upto - start
  /\ candidate_params' = LrResult(acc)
  /\ cursor' = 0
  /\ fold' = FZero
  /\ pc' = "err"
  /\ UNCHANGED <<data, start, end, best_params, best_err, candidate_err,
                 caller, upto, acc, modelVars, ranges, callVars>>

\* segment_error, lines 62-66: one pair folded into the maximum
ErrLoop ==
  /\ pc = "err"
  /\ cursor < upto - start
  /\ fold' = FMax(fold, Residual(candidate_params,
                                 data[start + cursor + 1][1], data[start + cursor + 1][2]))
  /\ cursor' = cursor + 1
  /\ UNCHANGED <<data, pc, start, end, best_params, best_err, candidate_params,
                 candidate_err, caller, upto, acc, modelVars, ranges, callVars>>

\* ErrReturn accepting every candidate, whatever its residual
ErrReturnNoThreshold ==
  /\ pc = "err"
  /\ cursor = upto - start
  /\ candidate_err' = fold
  /\ best_params' = candidate_params
  /\ best_err' = fold
  /\ end' = IF caller = "first" THEN end ELSE end + 1
  /\ pc' = "inner"
  /\ UNCHANGED <<data, start, candidate_params, fitVars, modelVars, ranges,
                 callVars>>

\* segment_error returns: line 90 for the first pair, lines 94-102 otherwise
ErrReturn ==
  /\ pc = "err"
  /\ cursor = upto - start
  /\ candidate_err' = fold
  /\ IF caller = "first"
     THEN /\ best_params' = candidate_params
          /\ best_err' = fold
          /\ pc' = "inner"
          /\ UNCHANGED end
     ELSE IF FLe(fold, MAX_SEGMENT_ABS_ERROR)
          THEN /\ best_params' = candidate_params
               /\ best_err' = fold
               /\ end' = end + 1
               /\ pc' = "inner"
          ELSE /\ pc' = "close"
               /\ UNCHANGED <<best_params, best_err, end>>
  /\ UNCHANGED <<data, start, candidate_params, fitVars, modelVars, ranges,
                 callVars>>

\* CloseSegment recording the first key of the segment as its boundary
CloseSegmentFirstKey ==
  /\ pc = "close"
  /\ ranges' = Append(ranges, <<start, end>>)
  /\ intercepts' = Append(intercepts, best_params.alpha)
  /\ slopes' = Append(slopes, best_params.beta)
  /\ boundaries' = Append(boundaries, as_uint(data[start + 1][1]))
  /\ start' = end
  /\ pc' = "outer"
  /\ UNCHANGED <<data, end, best_params, best_err, candidate_params,
                 candidate_err, fitVars, callVars>>

\* lines 105-109: record the segment and move on
CloseSegment ==
  /\ pc = "close"
  /\ ranges' = Append(ranges, <<start, end>>)
  /\ intercepts' = Append(intercepts, best_params.alpha)
  /\ slopes' = Append(slopes, best_params.beta)
  /\ boundaries' = Append(boundaries, as_uint(data[end][1]))
  /\ start' = end
  /\ pc' = "outer"
  /\ UNCHANGED <<data, end, best_params, best_err, candidate_params,
                 candidate_err, fitVars, callVars>>

\* OptimalPLAModel::new, lines 122-125
New ==
  /\ pc = "built"
  /\ pc' = "ready"
  /\ UNCHANGED <<data, start, end, best_params, best_err, candidate_params,
                 candidate_err, fitVars, modelVars, ranges, callVars>>

(***************************************************************************)
(* predict_to_float.  slice::binary_search returns Ok(j) for some j with   *)
(* boundaries[j] = key (which one is unspecified when several match) or    *)
(* Err(number of boundaries below key).  Indices are 0-based.              *)
(***************************************************************************)
binary_search(b, key) ==
  LET hits == {j \in 0..(Len(b) - 1) : b[j + 1] = key}
  IN  IF hits # {}
      THEN {[ok |-> TRUE, at |-> j] : j \in hits}
      ELSE {[ok |-> FALSE,
             at |-> Cardinality({j \in 0..(Len(b) - 1) : BCmp(b[j + 1], key) < 0})]}

Min(a, b) == IF a < b THEN a ELSE b

\* lines 135-140: the clamped segment index for one search outcome
bounded_idx(r, len) == Min(IF r.ok THEN r.at + 1 ELSE r.at, len - 1)

\* line 141, for the 0-based segment index idx
Evaluate(idx, key) == FMulAdd(slopes[idx + 1], FFromU(key), intercepts[idx + 1])

\* Model::predict_to_int: floor, clamp below at 0, cast to u64
predict_to_int(out) == FToU(FMax(FZero, FFloor(out)))

\* query keys: every key up to MaxKey + 1, the training keys, the largest u64
QueryKeys ==
  {BFromInt(k) : k \in 0..(MaxKey + 1)}
    \cup {as_uint(data[j][1]) : j \in 1..Len(data)} \cup {U64_MAX}

predict_to_float(key) ==
  /\ pc = "ready"
  /\ IF boundaries = << >>
     THEN query' = [asked |-> TRUE, key |-> key, idx |-> 0, out |-> FZero]
     ELSE \E r \in binary_search(boundaries, key) :
            LET idx == bounded_idx(r, Len(intercepts))
            IN  query' = [asked |-> TRUE, key |-> key, idx |-> idx,
                           out |-> Evaluate(idx, key)]
  /\ UNCHANGED <<data, pc, start, end, best_params, best_err, candidate_params,
                 candidate_err, fitVars, modelVars, ranges, forced>>

\* the smallest u64 that is not a double
BigConst == BAdd(BShl(<<1>>, MantissaBits), <<1>>)

Constants == {BFromInt(c) : c \in 0..MaxConst} \cup {BigConst}

\* set_to_constant_model leaving the slope of the first segment in place
set_to_constant_model_KeepSlope(constant) ==
  /\ pc = "ready"
  /\ intercepts' = <<FFromU(constant)>>
  /\ slopes' = <<slopes[1]>>
  /\ boundaries' = <<U64_MAX>>
  /\ forced' = [called |-> TRUE, constant |-> constant, ret |-> TRUE]
  /\ query' = NoQuery
  /\ UNCHANGED <<data, pc, start, end, best_params, best_err, candidate_params,
                 candidate_err, fitVars, ranges>>

\* lines 174-179
set_to_constant_model(constant) ==
  /\ pc = "ready"
  /\ intercepts' = <<FFromU(constant)>>
  /\ slopes' = <<FZero>>
  /\ boundaries' = <<U64_MAX>>
  /\ forced' = [called |-> TRUE, constant |-> constant, ret |-> TRUE]
  /\ query' = NoQuery
  /\ UNCHANGED <<data, pc, start, end, best_params, best_err, candidate_params,
                 candidate_err, fitVars, ranges>>

Predict == \E key \in QueryKeys : predict_to_float(key)
SetConstant == \E constant \in Constants : set_to_constant_model(constant)

Build == BuildEnter \/ OuterStep \/ InnerStep \/ LrLoop \/ LrReturn
           \/ ErrLoop \/ ErrReturn \/ CloseSegment \/ New

Next == BuildEnter \/ OuterStep \/ InnerStep \/ LrLoop \/ LrReturn
          \/ ErrLoop \/ ErrReturn \/ CloseSegment \/ New
          \/ Predict \/ SetConstant

Spec == Init /\ [][Next]_vars
SpecScenario == InitScenario /\ [][Next]_vars
SpecLine == InitLine /\ [][Next]_vars
\* the steps of build_segments itself and of the two functions it calls
ControlStep == BuildEnter \/ OuterStep \/ InnerStep \/ CloseSegment \/ New
FitStep == LrLoop \/ LrReturn \/ ErrLoop \/ ErrReturn

\* a call of simple_lr or segment_error is in progress: its loop has the
\* next iteration or the exit available
FitPending == pc \in {"lr", "err"}

\* OptimalPLAModel::new is a sequential call that runs to completion: weak
\* fairness of its steps.  For the steps of the fit, WF_vars(FitStep) is
\* written out with FitPending for ENABLED <<FitStep>>_vars.
FairSpec ==
  /\ Init /\ [][Next]_vars
  /\ WF_vars(ControlStep)
  /\ ([]<>(~FitPending) \/ []<><<FitStep>>_vars)

(***************************************************************************)
(* The lookup code emitted by OptimalPLAModel::code (line 158): the C++    *)
(* function receives the key as a double, casts it to uint64_t, takes the  *)
(* upper bound in boundaries and clamps.                                   *)
(***************************************************************************)
\* (uint64_t)inp: truncation; out of range the conversion is undefined
CastToU64(f) ==
  IF FCmp(f, FFromU(BShl(<<1>>, 64))) < 0 THEN {FToU(f)}
  ELSE {<<>>, BShl(<<1>>, 63), U64_MAX}

\* bs_upper_bound: the number of entries of the sorted array that are <= key
bs_upper_bound(b, length, key) ==
  Cardinality({j \in 1..length : BCmp(b[j], key) <= 0})

optimal_pla_idx(length, b, key) ==
  LET idx == bs_upper_bound(b, length, key)
  IN  IF idx >= length THEN length - 1 ELSE idx

(***************************************************************************)
(* Properties.                                                             *)
(***************************************************************************)
\* the model is as OptimalPLAModel::new built it
Trained == pc = "ready" /\ ~forced.called

\* 1-based indices of the training pairs of the s-th recorded segment
PairsOf(s) == {j \in 1..Len(data) : ranges[s][1] < j /\ j <= ranges[s][2]}

\* training pairs whose key is the key of the latest query
Asked == {j \in 1..Len(data) : as_uint(data[j][1]) = query.key}

WithinOne(out, pos) == FLe(FAbs(FSub(out, FInt(pos))), MAX_SEGMENT_ABS_ERROR)

\* C1: on a built model, the prediction for the key of any training pair of
\* any segment but the last is within 1.0 of the pair's position, the last
\* pair of the segment (its boundary key) included.
C1_SegmentErrorBound ==
  (Trained /\ query.asked) =>
    \A s \in 1..(Len(ranges) - 1) :
      \A j \in PairsOf(s) \cap Asked : WithinOne(query.out, data[j][2])

\* C2: querying the boundary key of segment s is answered with the slope and
\* intercept of segment s itself.
C2_BoundaryTieRule ==
  (Trained /\ query.asked) =>
    \A s \in 1..Len(boundaries) :
      boundaries[s] = query.key => query.out = Evaluate(s - 1, query.key)

\* C3: the two-cluster container of the unit test is split into at least two
\* segments and predict_to_int returns the position of every training key.
C3_TwoClusters ==
  (data = ClusterData /\ Trained) =>
    /\ Len(boundaries) >= 2
    /\ query.asked =>
         \A j \in Asked : predict_to_int(query.out) = BFromInt(data[j][2])

\* C4: a non-empty container whose pairs lie on one line position = a*key + b
\* gives one segment, and predict_to_int returns a*key + b for every training
\* key.  (Every container of SpecLine is such a line.)
C4_LinearExact ==
  Trained =>
    /\ Len(boundaries) = 1
    /\ query.asked =>
         \A j \in Asked : predict_to_int(query.out) = BFromInt(data[j][2])

\* C5: the model built from the empty container predicts 0 for every key,
\* the largest u64 (the sentinel boundary) included.
C5_EmptyPredictsZero ==
  (data = EmptyData /\ Trained /\ query.asked) =>
    /\ query.out = FZero
    /\ predict_to_int(query.out) = <<>>

C5_Witness ==
  data = EmptyData /\ Trained /\ query.asked /\ query.key = U64_MAX

\* C6 as stated: after set_to_constant_model(value) the call has returned
\* true and every prediction is value, for every key, whatever was trained.
C6_ConstantIsValue ==
  (forced.called /\ query.asked) =>
    /\ forced.ret = TRUE
    /\ query.out = FNorm(1, forced.constant, 0)
    /\ predict_to_int(query.out) = forced.constant

\* C6 amended: after set_to_constant_model(value) the call has returned true
\* and every prediction is the double nearest to value (value as f64), for
\* every key, whatever was trained; it is value itself whenever value has at
\* most 53 significant bits.
C6_ConstantIsValueAsDouble ==
  /\ forced.called => forced.ret = TRUE
  /\ (forced.called /\ query.asked) =>
       /\ query.out = FFromU(forced.constant)
       /\ BBitLen(forced.constant) <= MantissaBits =>
            predict_to_int(query.out) = forced.constant

C6_Witness ==
  /\ forced.called /\ forced.constant = BigConst
  /\ query.asked
  /\ Len(ranges) >= 2
  /\ query.key \in {as_uint(data[j][1]) : j \in 1..Len(data)}

\* C7: in every state of a constructed model the three vectors have one
\* common length >= 1 and every clamped segment index is a valid index.
C7_VectorsAndIndex ==
  pc = "ready" =>
    /\ Len(intercepts) = Len(slopes)
    /\ Len(slopes) = Len(boundaries)
    /\ Len(boundaries) >= 1
    /\ \A key \in QueryKeys : \A r \in binary_search(boundaries, key) :
         bounded_idx(r, Len(intercepts)) \in 0..(Len(intercepts) - 1)
    /\ query.asked => query.idx \in 0..(Len(intercepts) - 1)

C7_Witness ==
  Trained /\ Len(boundaries) = 3 /\ query.asked /\ query.idx = 2

\* C8: at every point of the construction each recorded segment's line has
\* maximum absolute residual <= 1.0 over the segment's own pairs, and so has
\* the line of the segment being grown, whose residual is 0 while it holds a
\* single pair.
C8_RecordedResidual ==
  ~forced.called =>
    /\ \A s \in 1..Len(ranges) :
         FLe(segment_error(data, ranges[s][1], ranges[s][2],
                           Line(intercepts[s], slopes[s])),
             MAX_SEGMENT_ABS_ERROR)
    /\ pc \in {"inner", "close"} =>
         /\ best_err = segment_error(data, start, end, best_params)
         /\ FLe(best_err, MAX_SEGMENT_ABS_ERROR)
         /\ end = start + 1 => best_err = FZero

C8_Witness ==
  /\ pc = "outer"
  /\ Len(ranges) >= 2
  /\ \E s \in 1..Len(ranges) :
       /\ ranges[s][2] - ranges[s][1] >= 2
       /\ segment_error(data, ranges[s][1], ranges[s][2],
                        Line(intercepts[s], slopes[s])) # FZero

\* the refitted line over pairs from .. to-1 keeps the residual <= 1.0
Accepts(from, to) ==
  FLe(segment_error(data, from, to, fit_segment(data, from, to)),
      MAX_SEGMENT_ABS_ERROR)

GreedySegmentation ==
  /\ Len(ranges) >= 1
  /\ Len(boundaries) = Len(ranges)
  /\ ranges[1][1] = 0
  /\ ranges[Len(ranges)][2] = Len(data)
  /\ \A s \in 1..(Len(ranges) - 1) : ranges[s + 1][1] = ranges[s][2]
  /\ \A s \in 1..Len(ranges) :
       LET from == ranges[s][1]
           to   == ranges[s][2]
       IN  /\ from < to
           /\ \A e \in (from + 1)..(to - 1) : Accepts(from, e + 1)
           /\ to = Len(data) \/ ~Accepts(from, to + 1)
           /\ boundaries[s] = as_uint(data[to][1])

\* C9: on a non-empty container build_segments terminates and returns the
\* greedy segmentation: consecutive non-empty ranges covering all pairs, each
\* ending at the first point where the container ends or the refitted line
\* exceeds residual 1.0, with the last key of each range as its boundary.
C9_GreedyTerminates ==
  /\ <>(pc = "built")
  /\ [](FitPending => cursor <= upto - start)
  /\ [](pc = "built" /\ Len(data) > 0 => GreedySegmentation)

C9_Witness ==
  /\ pc = "built"
  /\ Len(ranges) = 2
  /\ ranges[1][2] - ranges[1][1] = 2
  /\ Len(data) = 3

\* C10: the segment index predict_to_float selects equals the index the
\* emitted lookup code computes for the same key, also when boundaries holds
\* equal entries.
C10_IndexAgreement ==
  (pc = "ready" /\ query.asked) =>
    \A k \in CastToU64(FFromU(query.key)) :
      query.idx = optimal_pla_idx(Len(intercepts), boundaries, k)

====
